---- MODULE Spec2Model ----
(***************************************************************************)
(* Model of lazy_copy::copy (src/src/lib.rs): a buffered compare-then-     *)
(* write copy of a source byte stream onto a destination file.  Every I/O  *)
(* call of copy is one step, so that a failure can be placed at any call   *)
(* and the position of the destination cursor can be observed between      *)
(* calls.  The destination file, the source stream and the two             *)
(* environment behaviours the Read contract permits (short reads, errors)  *)
(* are part of the state.                                                  *)
(***************************************************************************)
EXTENDS Integers, Sequences, FiniteSets, TLC

\* Longest source and longest initial destination that are enumerated.
MaxLen == 4

\* The buffer size of lib.rs:7 (8 * 1024), scaled down so that several
\* chunks and every position of a divergence around a chunk boundary fit
\* within MaxLen bytes.
BUFFER_SIZE == 2

\* Number of successive calls of copy on the same destination.
MaxRuns == 2

Byte == 0..1

Min(a, b) == IF a < b THEN a ELSE b

Max(a, b) == IF a > b THEN a ELSE b

SeqsUpTo(n) == UNION {[1..k -> Byte] : k \in 0..n}

VARIABLES
    S,              \* the bytes the source stream delivers
    spos,           \* bytes of S consumed so far by this call
    fexists,        \* does a file exist at the destination path
    file,           \* the content of the file at the destination path
    cur,            \* cursor of the destination handle
    source_buffer,  \* source_buffer[..source_bytes_read]
    dest_buffer,    \* dest_buffer[..dest_bytes_read]
    copy_buffer,    \* the chunk io::copy holds between its read and write
    copied,         \* io::copy's running count
    bytes_copied,   \* the running byte count
    arm,            \* the match arm taken by the last comparison
    pc,             \* the I/O call copy is about to issue
    result,         \* Ok(n) as n, -1 while none was returned
    ops,            \* history: the I/O calls issued by this call, in order
    fullReads,      \* history: every read of this call filled min(buffer, remaining)
    run,            \* which call of copy this is
    dest0,          \* history: the destination when this call started
    file1,          \* history: the destination after the first call returned
    inv,            \* concurrent invocations: the locals of each call of copy
    fs              \* concurrent invocations: the file at each destination path

vars == <<inv, fs, S, spos, fexists, file, cur, source_buffer, dest_buffer, copy_buffer,
          copied, bytes_copied, arm, pc, result, ops, fullReads, run, dest0, file1>>

(***************************************************************************)
(* The file system and stream primitives copy calls.                       *)
(***************************************************************************)

\* Sizes a read may return with rem bytes left: 0 only at end of stream,
\* otherwise at least one byte and at most one buffer.
ReadSizes(rem) == IF rem = 0 THEN {0} ELSE 1..Min(BUFFER_SIZE, rem)

FullSize(rem) == Min(BUFFER_SIZE, rem)

\* write_all(data) at offset off of content f; a gap is zero-filled.
WriteAt(f, off, data) ==
    IF data = <<>> THEN f
    ELSE [i \in 1..Max(Len(f), off + Len(data)) |->
            IF i > off /\ i <= off + Len(data) THEN data[i - off]
            ELSE IF i <= Len(f) THEN f[i] ELSE 0]

\* File::set_len(n): truncates, or extends with zeros.
SetLenNoop(f, n) == f

SetLen(f, n) == [i \in 1..n |-> IF i <= Len(f) THEN f[i] ELSE 0]

Op(kind, off, data, ok) == [op |-> kind, off |-> off, data |-> data, ok |-> ok]

(***************************************************************************)
(* The pure parts of copy.                                                 *)
(***************************************************************************)

\* lib.rs:28-54: the three-way comparison of the lengths read, then content.
ArmNoContent(dbuf, sbuf) ==
    IF Len(dbuf) = Len(sbuf) THEN "match"
    ELSE IF Len(dbuf) > Len(sbuf) THEN "greater" ELSE "less"

ArmAlwaysRewrite(dbuf, sbuf) ==
    IF Len(dbuf) = Len(sbuf) THEN "mismatch"
    ELSE IF Len(dbuf) > Len(sbuf) THEN "greater" ELSE "less"

ArmSwapped(dbuf, sbuf) ==
    IF Len(dbuf) = Len(sbuf)
    THEN IF sbuf = dbuf THEN "match" ELSE "mismatch"
    ELSE IF Len(sbuf) > Len(dbuf) THEN "greater" ELSE "less"

Arm(dbuf, sbuf) ==
    IF Len(dbuf) = Len(sbuf)
    THEN IF sbuf = dbuf THEN "match" ELSE "mismatch"
    ELSE IF Len(dbuf) > Len(sbuf) THEN "greater" ELSE "less"

\* lib.rs:24-26: a zero-length source read leaves the loop.
AfterSourceReadNoBreak(n) == "dest_read"

AfterSourceRead(n) == IF n = 0 THEN "set_len" ELSE "dest_read"

\* lib.rs:37,48,56: SeekFrom::Current(-(dest_bytes_read as i64)).
SeekTargetStart(c, n) == 0

SeekTargetOffByOne(c, n) == c - n + 1

SeekTargetNoRewind(c, n) == c

SeekTarget(c, n) == c - n

\* lib.rs:41-43, 51, 60-62: what follows the rewrite of the chunk.
AfterWriteLoops(a) ==
    IF a = "greater" THEN "set_len" ELSE IF a = "mismatch" THEN "source_read" ELSE "copy_read"

AfterWrite(a) == IF a = "greater" THEN "set_len" ELSE "copy_read"

Init ==
    /\ S \in SeqsUpTo(MaxLen)
    /\ fexists \in BOOLEAN
    /\ file \in (IF fexists THEN SeqsUpTo(MaxLen) ELSE {<<>>})
    /\ spos = 0
    /\ cur = 0
    /\ source_buffer = <<>>
    /\ dest_buffer = <<>>
    /\ copy_buffer = <<>>
    /\ copied = 0
    /\ bytes_copied = 0
    /\ arm = "none"
    /\ pc = "open"
    /\ result = -1
    /\ ops = <<>>
    /\ fullReads = TRUE
    /\ run = 1
    /\ dest0 = [exists |-> fexists, content |-> file]
    /\ file1 = <<>>
    /\ inv = <<>>
    /\ fs = <<>>

(***************************************************************************)
(* The steps of copy.                                                      *)
(***************************************************************************)

\* lib.rs:14-21: open read+write, create if absent, no truncation.
Open ==
    /\ pc = "open"
    /\ fexists' = TRUE
    /\ cur' = 0
    /\ bytes_copied' = 0
    /\ pc' = "source_read"
    /\ ops' = Append(ops, Op("open", 0, <<>>, TRUE))
    /\ UNCHANGED <<inv, fs, S, spos, file, source_buffer, dest_buffer, copy_buffer, copied,
                   arm, result, fullReads, run, dest0, file1>>

\* lib.rs:18: the open fails; `?` returns the error.
OpenFailCreates ==
    /\ pc = "open"
    /\ pc' = "err"
    /\ fexists' = TRUE
    /\ ops' = Append(ops, Op("open", 0, <<>>, FALSE))
    /\ UNCHANGED <<inv, fs, S, spos, file, cur, source_buffer, dest_buffer, copy_buffer,
                   copied, bytes_copied, arm, result, fullReads, run, dest0, file1>>

OpenFail ==
    /\ pc = "open"
    /\ pc' = "err"
    /\ ops' = Append(ops, Op("open", 0, <<>>, FALSE))
    /\ UNCHANGED <<inv, fs, S, spos, fexists, file, cur, source_buffer, dest_buffer, copy_buffer,
                   copied, bytes_copied, arm, result, fullReads, run, dest0, file1>>

\* lib.rs:23-26: source.read(&mut source_buffer), break on zero.
SourceRead ==
    /\ pc = "source_read"
    /\ \E n \in ReadSizes(Len(S) - spos) :
        /\ source_buffer' = SubSeq(S, spos + 1, spos + n)
        /\ spos' = spos + n
        /\ pc' = AfterSourceRead(n)
        /\ fullReads' = (fullReads /\ n = FullSize(Len(S) - spos))
        /\ ops' = Append(ops, Op("sread", spos, SubSeq(S, spos + 1, spos + n), TRUE))
    /\ UNCHANGED <<inv, fs, S, fexists, file, cur, dest_buffer, copy_buffer, copied,
                   bytes_copied, arm, result, run, dest0, file1>>

\* lib.rs:27-33: dest.read(&mut dest_buffer), then the comparison; the
\* matching arm only advances the count and continues the loop.
DestRead ==
    /\ pc = "dest_read"
    /\ \E n \in ReadSizes(Max(Len(file) - cur, 0)) :
        LET dbuf == SubSeq(file, cur + 1, cur + n)
            a == Arm(dbuf, source_buffer)
        IN  /\ dest_buffer' = dbuf
            /\ cur' = cur + n
            /\ arm' = a
            /\ fullReads' = (fullReads /\ n = FullSize(Max(Len(file) - cur, 0)))
            /\ ops' = Append(ops, Op("dread", cur, dbuf, TRUE))
            /\ IF a = "match"
               THEN /\ bytes_copied' = bytes_copied + Len(source_buffer)
                    /\ pc' = "source_read"
               ELSE /\ bytes_copied' = bytes_copied
                    /\ pc' = "seek"
    /\ UNCHANGED <<inv, fs, S, spos, fexists, file, source_buffer, copy_buffer, copied,
                   result, run, dest0, file1>>

\* lib.rs:37,48,56: move back over the chunk just read; a negative target
\* is an error of seek.
Seek ==
    /\ pc = "seek"
    /\ SeekTarget(cur, Len(dest_buffer)) >= 0
    /\ cur' = SeekTarget(cur, Len(dest_buffer))
    /\ pc' = "write"
    /\ ops' = Append(ops, Op("seek", SeekTarget(cur, Len(dest_buffer)), <<>>, TRUE))
    /\ UNCHANGED <<inv, fs, S, spos, fexists, file, source_buffer, dest_buffer, copy_buffer,
                   copied, bytes_copied, arm, result, fullReads, run, dest0, file1>>

\* lib.rs:38-39,49-50,57-58: write_all of the source chunk, then the count.
WriteKeepsCursor ==
    /\ pc = "write"
    /\ file' = WriteAt(file, cur, source_buffer)
    /\ cur' = cur
    /\ bytes_copied' = bytes_copied + Len(source_buffer)
    /\ copied' = 0
    /\ pc' = AfterWrite(arm)
    /\ ops' = Append(ops, Op("write", cur, source_buffer, TRUE))
    /\ UNCHANGED <<inv, fs, S, spos, fexists, source_buffer, dest_buffer, copy_buffer,
                   arm, result, fullReads, run, dest0, file1>>

Write ==
    /\ pc = "write"
    /\ file' = WriteAt(file, cur, source_buffer)
    /\ cur' = cur + Len(source_buffer)
    /\ bytes_copied' = bytes_copied + Len(source_buffer)
    /\ copied' = 0
    /\ pc' = AfterWrite(arm)
    /\ ops' = Append(ops, Op("write", cur, source_buffer, TRUE))
    /\ UNCHANGED <<inv, fs, S, spos, fexists, source_buffer, dest_buffer, copy_buffer,
                   arm, result, fullReads, run, dest0, file1>>

\* lib.rs:41-43,60-62: io::copy reads a chunk of the source; at end of
\* stream it returns its count, which is added to the running count.
CopyReadForgetsCount ==
    /\ pc = "copy_read"
    /\ \E n \in ReadSizes(Len(S) - spos) :
        /\ copy_buffer' = SubSeq(S, spos + 1, spos + n)
        /\ spos' = spos + n
        /\ fullReads' = (fullReads /\ n = FullSize(Len(S) - spos))
        /\ ops' = Append(ops, Op("sread", spos, SubSeq(S, spos + 1, spos + n), TRUE))
        /\ bytes_copied' = bytes_copied
        /\ pc' = (IF n = 0 THEN "set_len" ELSE "copy_write")
    /\ UNCHANGED <<inv, fs, S, fexists, file, cur, source_buffer, dest_buffer, copied,
                   arm, result, run, dest0, file1>>

CopyRead ==
    /\ pc = "copy_read"
    /\ \E n \in ReadSizes(Len(S) - spos) :
        /\ copy_buffer' = SubSeq(S, spos + 1, spos + n)
        /\ spos' = spos + n
        /\ fullReads' = (fullReads /\ n = FullSize(Len(S) - spos))
        /\ ops' = Append(ops, Op("sread", spos, SubSeq(S, spos + 1, spos + n), TRUE))
        /\ IF n = 0
           THEN /\ bytes_copied' = bytes_copied + copied
                /\ pc' = "set_len"
           ELSE /\ bytes_copied' = bytes_copied
                /\ pc' = "copy_write"
    /\ UNCHANGED <<inv, fs, S, fexists, file, cur, source_buffer, dest_buffer, copied,
                   arm, result, run, dest0, file1>>

\* lib.rs:41,60: io::copy writes the chunk at the destination cursor.
CopyWrite ==
    /\ pc = "copy_write"
    /\ file' = WriteAt(file, cur, copy_buffer)
    /\ cur' = cur + Len(copy_buffer)
    /\ copied' = copied + Len(copy_buffer)
    /\ pc' = "copy_read"
    /\ ops' = Append(ops, Op("write", cur, copy_buffer, TRUE))
    /\ UNCHANGED <<inv, fs, S, spos, fexists, source_buffer, dest_buffer, copy_buffer,
                   bytes_copied, arm, result, fullReads, run, dest0, file1>>

\* lib.rs:67-70: dest.set_len(bytes_copied), then Ok(bytes_copied).
SetLenReturnSkipsLess ==
    /\ pc = "set_len"
    /\ file' = (IF arm = "less" THEN file ELSE SetLen(file, bytes_copied))
    /\ result' = bytes_copied
    /\ pc' = "done"
    /\ ops' = (IF arm = "less" THEN ops ELSE Append(ops, Op("set_len", bytes_copied, <<>>, TRUE)))
    /\ UNCHANGED <<inv, fs, S, spos, fexists, cur, source_buffer, dest_buffer, copy_buffer,
                   copied, bytes_copied, arm, fullReads, run, dest0, file1>>

SetLenReturn ==
    /\ pc = "set_len"
    /\ file' = SetLen(file, bytes_copied)
    /\ result' = bytes_copied
    /\ pc' = "done"
    /\ ops' = Append(ops, Op("set_len", bytes_copied, <<>>, TRUE))
    /\ UNCHANGED <<inv, fs, S, spos, fexists, cur, source_buffer, dest_buffer, copy_buffer,
                   copied, bytes_copied, arm, fullReads, run, dest0, file1>>

(***************************************************************************)
(* Failing I/O calls: each `?` of copy returns the error to the caller.    *)
(***************************************************************************)

\* The call at position p fails without effect and copy returns Err.
Fails(p, kind, off) ==
    /\ pc = p
    /\ pc' = "err"
    /\ ops' = Append(ops, Op(kind, off, <<>>, FALSE))
    /\ UNCHANGED <<inv, fs, S, spos, fexists, file, cur, source_buffer, dest_buffer, copy_buffer,
                   copied, bytes_copied, arm, result, fullReads, run, dest0, file1>>

\* lib.rs:23
SourceReadFailContinues ==
    /\ pc = "source_read"
    /\ pc' = "set_len"
    /\ ops' = Append(ops, Op("sread", spos, <<>>, FALSE))
    /\ UNCHANGED <<inv, fs, S, spos, fexists, file, cur, source_buffer, dest_buffer, copy_buffer,
                   copied, bytes_copied, arm, result, fullReads, run, dest0, file1>>

SourceReadFail == Fails("source_read", "sread", spos)

\* lib.rs:27
DestReadFail == Fails("dest_read", "dread", cur)

\* lib.rs:37,48,56: the seek fails, also when its target would be negative.
SeekFail == Fails("seek", "seek", SeekTarget(cur, Len(dest_buffer)))

\* lib.rs:38,49,57 and the write inside io::copy: write_all fails after
\* having written k bytes of the chunk, k less than its length.
WriteFailAt(p, buf) ==
    /\ pc = p
    /\ \E k \in 0..(Len(buf) - 1) :
        /\ file' = WriteAt(file, cur, SubSeq(buf, 1, k))
        /\ cur' = cur + k
        /\ ops' = Append(ops, Op("write", cur, SubSeq(buf, 1, k), FALSE))
    /\ pc' = "err"
    /\ UNCHANGED <<inv, fs, S, spos, fexists, source_buffer, dest_buffer, copy_buffer,
                   copied, bytes_copied, arm, result, fullReads, run, dest0, file1>>

WriteFail == WriteFailAt("write", source_buffer)

\* lib.rs:41,60: a read or a write inside io::copy fails.
CopyReadFail == Fails("copy_read", "sread", spos)

CopyWriteFail == WriteFailAt("copy_write", copy_buffer)

\* lib.rs:68
SetLenFail == Fails("set_len", "set_len", bytes_copied)

(***************************************************************************)
(* A caller that runs copy again with the same source content.             *)
(***************************************************************************)
Again ==
    /\ pc = "done"
    /\ run < MaxRuns
    /\ run' = run + 1
    /\ file1' = file
    /\ dest0' = [exists |-> fexists, content |-> file]
    /\ spos' = 0
    /\ cur' = 0
    /\ source_buffer' = <<>>
    /\ dest_buffer' = <<>>
    /\ copy_buffer' = <<>>
    /\ copied' = 0
    /\ bytes_copied' = 0
    /\ arm' = "none"
    /\ pc' = "open"
    /\ result' = -1
    /\ ops' = <<>>
    /\ fullReads' = TRUE
    /\ UNCHANGED <<inv, fs, S, fexists, file>>

Next ==
    \/ Open
    \/ OpenFail
    \/ SourceRead
    \/ SourceReadFail
    \/ DestRead
    \/ DestReadFail
    \/ Seek
    \/ SeekFail
    \/ Write
    \/ WriteFail
    \/ CopyRead
    \/ CopyReadFail
    \/ CopyWrite
    \/ CopyWriteFail
    \/ SetLenReturn
    \/ SetLenFail
    \/ Again

Spec == Init /\ [][Next]_vars

TypeOK ==
    /\ spos \in 0..Len(S)
    /\ cur >= 0
    /\ bytes_copied \in 0..MaxLen
    /\ pc \in {"open", "source_read", "dest_read", "seek", "write", "copy_read",
               "copy_write", "set_len", "done", "err"}
    /\ run \in 1..MaxRuns

(***************************************************************************)
(* Observations on the history of calls.                                   *)
(***************************************************************************)

OpsOf(kinds) == {i \in DOMAIN ops : ops[i].op \in kinds}

LastOp == ops[Len(ops)]

\* Index of the first write issued by this call; 0 when there is none.
FirstWrite ==
    IF OpsOf({"write"}) = {} THEN 0
    ELSE CHOOSE i \in OpsOf({"write"}) : \A j \in OpsOf({"write"}) : i <= j

\* The destination content that the completed part of a history produces.
RECURSIVE Replay(_, _)
Replay(f, log) ==
    IF log = <<>> THEN f
    ELSE LET o == Head(log)
             g == IF o.op = "write" THEN WriteAt(f, o.off, o.data)
                  ELSE IF o.op = "set_len" /\ o.ok THEN SetLen(f, o.off)
                  ELSE f
         IN  Replay(g, Tail(log))

\* C1: with full reads and no failing call, copy returns Ok(len(S)) and
\* leaves the destination holding exactly S, whatever it held before
\* (absent, empty, shorter, longer, different, equal) and wherever the
\* first difference lies relative to a buffer boundary.
C1_FullReadsCopyExact ==
    (pc = "done" /\ fullReads) => (result = Len(S) /\ fexists /\ file = S)

\* A same-length destination whose first difference is on a buffer boundary.
C1_Witness ==
    /\ pc = "done" /\ fullReads /\ run = 1
    /\ Len(S) = 2 * BUFFER_SIZE
    /\ dest0.exists /\ Len(dest0.content) = Len(S)
    /\ SubSeq(dest0.content, 1, BUFFER_SIZE) = SubSeq(S, 1, BUFFER_SIZE)
    /\ dest0.content[BUFFER_SIZE + 1] # S[BUFFER_SIZE + 1]
    /\ file = S

\* C2: however the source and the destination split their content into
\* reads, a successful copy returns len(S) and leaves exactly S.
C2_ShortReadsTolerated ==
    pc = "done" => (result = Len(S) /\ file = S)

\* C3: a destination that is S followed by extra bytes is cut to exactly
\* S, whether or not len(S) is a multiple of the buffer size.
C3_Truncation ==
    ( /\ pc = "done" /\ fullReads
      /\ dest0.exists
      /\ Len(dest0.content) > Len(S)
      /\ SubSeq(dest0.content, 1, Len(S)) = S )
    => (Len(file) = Len(S) /\ file = S)

\* The stale tail starts inside a chunk.
C3_Witness ==
    /\ pc = "done" /\ fullReads /\ run = 1
    /\ dest0.exists
    /\ Len(S) = BUFFER_SIZE + 1
    /\ Len(dest0.content) > Len(S)
    /\ SubSeq(dest0.content, 1, Len(S)) = S
    /\ Len(file) = Len(S)

\* C4: when the destination already equals S and reads are full, copy
\* issues no seek and no write; the destination sees only reads and one
\* final set_len to its own length, and its content never changes.
C4_NoOpOnExactMatch ==
    (fullReads /\ dest0.exists /\ dest0.content = S) =>
        /\ OpsOf({"seek", "write"}) = {}
        /\ file = dest0.content
        /\ \A i \in OpsOf({"set_len"}) : i = Len(ops) /\ ops[i].off = Len(dest0.content)
        /\ pc = "done" => (LastOp.op = "set_len" /\ LastOp.ok)

C4_Witness ==
    /\ pc = "done" /\ fullReads /\ run = 1
    /\ dest0.exists /\ dest0.content = S
    /\ Len(S) = 2 * BUFFER_SIZE
    /\ Cardinality(OpsOf({"dread"})) = 2

\* C5: a second call with the same source content leaves the destination
\* as the first call left it and issues no write.
C5_Idempotence ==
    (run = 2 /\ pc = "done") => (file = file1 /\ OpsOf({"write"}) = {})

\* C6: on every successful return the last call on the destination is
\* set_len(bytes_copied), so the final length is the returned count.
C6_TruncationUnconditional ==
    pc = "done" =>
        /\ LastOp.op = "set_len" /\ LastOp.ok
        /\ LastOp.off = result
        /\ result = bytes_copied
        /\ Len(file) = result

\* The destination-shorter exit, with bytes written by io::copy.
C6_Witness ==
    /\ pc = "done" /\ arm = "less" /\ copied > 0
    /\ LastOp.op = "set_len" /\ Len(file) = result

\* C7: a failing call ends copy at once: the failed call is the last call
\* of the history, nothing is returned, no step follows, and the
\* destination is what the writes completed so far produced.
C7_ErrInv ==
    /\ \A i \in DOMAIN ops : (~ops[i].ok) => (i = Len(ops) /\ pc = "err")
    /\ pc = "err" =>
        /\ ~LastOp.ok
        /\ result = -1
        /\ file = Replay(dest0.content, ops)
        /\ OpsOf({"set_len"}) = {} \/ LastOp.op = "set_len"

C8_OpenFailure ==
    (pc = "err" /\ LastOp.op = "open") =>
        /\ Len(ops) = 1
        /\ spos = 0
        /\ fexists = dest0.exists
        /\ file = dest0.content

C8_Witness ==
    pc = "err" /\ LastOp.op = "open" /\ ~dest0.exists /\ ~fexists /\ Len(S) > 0

\* C9: when the first source read returns no byte, copy issues no
\* destination read, seek or write, sets the length to 0 and returns 0.
C9_EmptySource ==
    (Len(ops) >= 2 /\ ops[2].op = "sread" /\ ops[2].ok /\ ops[2].data = <<>>) =>
        /\ OpsOf({"dread", "seek", "write"}) = {}
        /\ pc \in {"set_len", "done", "err"}
        /\ pc = "done" =>
            /\ result = 0
            /\ file = <<>> /\ fexists
            /\ Len(ops) = 3 /\ ops[3] = Op("set_len", 0, <<>>, TRUE)

C9_Witness ==
    /\ pc = "done" /\ S = <<>> /\ run = 1
    /\ dest0.exists /\ Len(dest0.content) > 0
    /\ result = 0 /\ file = <<>>

\* C10: the first write starts at the start offset of the first chunk
\* whose source and destination reads differ; no write touches an offset
\* before it, and the destination keeps its bytes before that offset.
C10_WritesStartAtDivergence ==
    FirstWrite # 0 =>
        LET w == FirstWrite
            d == w - 2
        IN  /\ d >= 2
            /\ ops[d].op = "dread" /\ ops[d - 1].op = "sread"
            /\ ops[d].data # ops[d - 1].data
            /\ \A i \in OpsOf({"dread"}) : i < d => ops[i].data = ops[i - 1].data
            /\ \A i \in OpsOf({"dread"}) : i <= d
            /\ ops[w].off = ops[d].off
            /\ \A j \in OpsOf({"write"}) : ops[j].off >= ops[d].off
            /\ SubSeq(file, 1, ops[d].off) = SubSeq(dest0.content, 1, ops[d].off)

\* The divergence is in the second chunk and io::copy writes after it.
C10_Witness ==
    /\ pc = "done" /\ FirstWrite # 0
    /\ ops[FirstWrite].off = BUFFER_SIZE
    /\ Cardinality(OpsOf({"write"})) >= 2

\* Index of the last destination read issued by this call; 0 when none.
LastDestRead ==
    IF OpsOf({"dread"}) = {} THEN 0
    ELSE CHOOSE i \in OpsOf({"dread"}) : \A j \in OpsOf({"dread"}) : j <= i

\* The bytes handed to the destination by the writes of a history, in order.
RECURSIVE WrittenBytes(_)
WrittenBytes(log) ==
    IF log = <<>> THEN <<>>
    ELSE (IF Head(log).op = "write" THEN Head(log).data ELSE <<>>)
         \o WrittenBytes(Tail(log))

\* C12: at the start of every loop iteration the destination cursor is the
\* running byte count; the seek of a rewriting arm moves back by exactly
\* the destination bytes just read (at most one buffer, never below 0), so
\* the write starts at the start of the chunk compared.
C12_CursorInvariant ==
    /\ pc \in {"source_read", "dest_read"} => cur = bytes_copied
    /\ pc = "seek" =>
        /\ LastOp.op = "dread"
        /\ Len(dest_buffer) <= BUFFER_SIZE
        /\ cur - Len(dest_buffer) = bytes_copied
        /\ cur - Len(dest_buffer) = LastOp.off
    /\ pc = "write" =>
        /\ LastOp.op = "seek" /\ ops[Len(ops) - 1].op = "dread"
        /\ LastOp.off = ops[Len(ops) - 1].off
        /\ cur = LastOp.off /\ cur >= 0
        /\ cur = bytes_copied

\* About to rewrite the second chunk after reading some of it.
C12_Witness ==
    /\ pc = "write" /\ cur = BUFFER_SIZE /\ cur = bytes_copied
    /\ Len(dest_buffer) > 0 /\ arm = "mismatch"

\* C13: every destination read precedes every destination write; in the
\* equal-length-mismatch and destination-shorter arms the writes carry all
\* remaining source bytes, up to the source's end-of-stream read.
C13_ReadsBeforeWrites ==
    /\ \A i \in OpsOf({"dread"}) : \A j \in OpsOf({"write"}) : i < j
    /\ (pc = "done" /\ arm \in {"mismatch", "less"}) =>
        /\ spos = Len(S)
        /\ ops[Len(ops) - 1].op = "sread" /\ ops[Len(ops) - 1].data = <<>>
        /\ \A i \in OpsOf({"sread"}) : i > FirstWrite => ops[i + 1].op \in {"write", "set_len"}
        /\ WrittenBytes(ops) = SubSeq(S, ops[FirstWrite].off + 1, Len(S))

\* A mismatch in the first chunk followed by two writes of io::copy.
C13_Witness ==
    /\ pc = "done" /\ arm = "mismatch"
    /\ Cardinality(OpsOf({"write"})) >= 3
    /\ Cardinality(OpsOf({"dread"})) = 1

\* C14: when the destination-shorter arm was taken on a destination read
\* that reached end of file, the file's length at loop exit is already the
\* running byte count and set_len changes nothing, so leaving it out on
\* that arm gives the same destination and result.
C14_HitEof ==
    /\ LastDestRead # 0
    /\ ops[LastDestRead].off + Len(ops[LastDestRead].data) = Len(dest0.content)

C14_TruncationRedundantOnLess ==
    /\ (pc = "set_len" /\ arm = "less" /\ C14_HitEof) =>
        /\ Len(file) = bytes_copied
        /\ SetLen(file, bytes_copied) = file
    /\ (pc = "done" /\ arm = "less" /\ C14_HitEof) =>
        /\ file = Replay(dest0.content, SubSeq(ops, 1, Len(ops) - 1))
        /\ result = Len(file)

\* A non-empty destination that ends inside the chunk compared.
C14_Witness ==
    /\ pc = "done" /\ arm = "less" /\ C14_HitEof
    /\ Len(dest0.content) > BUFFER_SIZE
    /\ Len(ops[LastDestRead].data) > 0
    /\ Len(file) > Len(dest0.content)

\* C15: with an empty or newly created destination and a non-empty S, the
\* first destination read returns 0 and takes the destination-shorter
\* arm; there is exactly one comparison, all of S is written in that pass
\* and the result is len(S).
C15_EmptyDestination ==
    (dest0.content = <<>> /\ Len(S) > 0) =>
        /\ OpsOf({"dread"}) \subseteq {3}
        /\ \A i \in OpsOf({"dread"}) : ops[i].ok =>
            (ops[i].data = <<>> /\ ops[i].off = 0 /\ arm = "less")
        /\ pc = "done" =>
            /\ Cardinality(OpsOf({"dread"})) = 1
            /\ Len(WrittenBytes(ops)) = Len(S)
            /\ WrittenBytes(ops) = S
            /\ result = Len(S) /\ file = S

\* A destination that did not exist, a source of several chunks.
C15_Witness ==
    /\ pc = "done" /\ ~dest0.exists /\ Len(S) > BUFFER_SIZE
    /\ arm = "less" /\ result = Len(S)

\* C16: under any read sizes, at the start of every loop iteration and at
\* every successful return the running byte count is the number of source
\* bytes consumed and the destination starts with exactly those bytes; on
\* success the destination is exactly the bytes consumed.
C16_CountIsConsumed ==
    /\ pc = "source_read" =>
        /\ bytes_copied = spos
        /\ Len(file) >= bytes_copied
        /\ SubSeq(file, 1, bytes_copied) = SubSeq(S, 1, spos)
    /\ pc = "done" =>
        /\ result = spos
        /\ file = SubSeq(S, 1, spos)

\* A return after short reads, with bytes written by io::copy.
C16_Witness ==
    /\ pc = "done" /\ ~fullReads /\ copied > 0
    /\ result > BUFFER_SIZE /\ file = SubSeq(S, 1, spos)

\* C18: within one call no destination offset is written twice: each
\* write starts where the previous one ended, and the bytes written are at
\* most len(S) minus the start offset of the first rewritten chunk.
C18_WritesOnceAscending ==
    /\ \A i \in OpsOf({"write"}) : \A j \in OpsOf({"write"}) :
        (i < j) =>
            /\ Len(ops[i].data) > 0
            /\ ops[i].off + Len(ops[i].data) <= ops[j].off
            /\ (\A k \in OpsOf({"write"}) : ~(i < k /\ k < j)) =>
                    ops[j].off = ops[i].off + Len(ops[i].data)
    /\ FirstWrite # 0 =>
        Len(WrittenBytes(ops)) <= Len(S) - ops[FirstWrite].off

\* Three successive writes, the first not at offset 0.
C18_Witness ==
    /\ pc = "done" /\ Cardinality(OpsOf({"write"})) >= 3
    /\ ops[FirstWrite].off > 0
    /\ Len(WrittenBytes(ops)) = Len(S) - ops[FirstWrite].off

(***************************************************************************)
(* copy is sequential code over blocking calls: every call it issues      *)
(* returns, with a value or an error, so a step that is possible is taken. *)
(***************************************************************************)
FairSpec == Spec /\ WF_vars(Next)

\* C17: for a finite source whose reads return at least one byte until it
\* is exhausted, copy returns (Ok or Err); every loop iteration consumes
\* at least one source byte or leaves the loop, so copy issues at most
\* len(S) + 1 source reads.
C17_Terminates ==
    /\ [](Cardinality(OpsOf({"sread"})) <= Len(S) + 1)
    /\ [][pc = "source_read" => (spos' > spos \/ pc' \in {"set_len", "err"})]_vars
    /\ (pc = "open") ~> (pc \in {"done", "err"})

\* The longest loop: a destination equal to S compared one byte at a time.
C17_Witness ==
    /\ pc = "done" /\ Len(S) > BUFFER_SIZE
    /\ OpsOf({"write"}) = {}
    /\ Cardinality(OpsOf({"sread"})) = Len(S) + 1

(***************************************************************************)
(* Two invocations of copy on different destination paths, their I/O      *)
(* calls interleaved in any order.  The locals of lib.rs:14-21 are per    *)
(* invocation (inv[p]); the file system (fs) is the only state both can    *)
(* reach.  Each step below is the step of the same name above, taken by   *)
(* invocation p on the file its handle was opened on.                      *)
(***************************************************************************)

\* Longest source and destination of the concurrent invocations.
ConcLen == 2

Procs == {1, 2}

\* lib.rs:14-18: the handle `dest` is the file at the path argument.
DestPathFixed(p) == 1

DestPath(p) == inv[p].path

callVars == <<S, spos, fexists, file, cur, source_buffer, dest_buffer, copy_buffer,
              copied, bytes_copied, arm, pc, result, ops, fullReads, run, dest0, file1>>

\* lib.rs:13-21: the locals of a call of copy(source, dest) before its open.
NewCall(path, src, d) ==
    [path |-> path, S |-> src, spos |-> 0, cur |-> 0,
     source_buffer |-> <<>>, dest_buffer |-> <<>>, copy_buffer |-> <<>>,
     copied |-> 0, bytes_copied |-> 0, arm |-> "none", pc |-> "open",
     result |-> -1, ops |-> <<>>, fullReads |-> TRUE, dest0 |-> d]

\* Invocation 1 copies any source onto any destination; invocation 2
\* copies a different, full-length source onto a shorter or absent
\* destination at another path.
InitConc ==
    /\ \E s1 \in SeqsUpTo(ConcLen), e1, e2 \in BOOLEAN :
       \E d1 \in (IF e1 THEN SeqsUpTo(ConcLen) ELSE {<<>>}),
          d2 \in (IF e2 THEN SeqsUpTo(ConcLen - 1) ELSE {<<>>}) :
          LET s2 == [i \in 1..ConcLen |-> 1]
              f1 == [exists |-> e1, content |-> d1]
              f2 == [exists |-> e2, content |-> d2]
          IN  /\ s1 # s2
              /\ fs = [q \in Procs |-> IF q = 1 THEN f1 ELSE f2]
              /\ inv = [q \in Procs |-> IF q = 1 THEN NewCall(1, s1, f1)
                                                 ELSE NewCall(2, s2, f2)]
    /\ S = <<>> /\ spos = 0 /\ fexists = FALSE /\ file = <<>> /\ cur = 0
    /\ source_buffer = <<>> /\ dest_buffer = <<>> /\ copy_buffer = <<>>
    /\ copied = 0 /\ bytes_copied = 0 /\ arm = "none" /\ pc = "idle"
    /\ result = -1 /\ ops = <<>> /\ fullReads = TRUE /\ run = 1
    /\ dest0 = [exists |-> FALSE, content |-> <<>>] /\ file1 = <<>>

\* lib.rs:14-21
COpen(p) ==
    /\ inv[p].pc = "open"
    /\ fs' = [fs EXCEPT ![DestPath(p)].exists = TRUE]
    /\ inv' = [inv EXCEPT ![p].cur = 0,
                          ![p].bytes_copied = 0,
                          ![p].pc = "source_read",
                          ![p].ops = Append(@, Op("open", 0, <<>>, TRUE))]
    /\ UNCHANGED callVars

\* lib.rs:23-26
CSourceRead(p) ==
    /\ inv[p].pc = "source_read"
    /\ \E n \in ReadSizes(Len(inv[p].S) - inv[p].spos) :
        LET data == SubSeq(inv[p].S, inv[p].spos + 1, inv[p].spos + n)
        IN  inv' = [inv EXCEPT ![p].source_buffer = data,
                               ![p].spos = @ + n,
                               ![p].pc = AfterSourceRead(n),
                               ![p].fullReads = (@ /\ n = FullSize(Len(inv[p].S) - inv[p].spos)),
                               ![p].ops = Append(@, Op("sread", inv[p].spos, data, TRUE))]
    /\ UNCHANGED <<fs, callVars>>

\* lib.rs:27-33
CDestRead(p) ==
    /\ inv[p].pc = "dest_read"
    /\ LET f == fs[DestPath(p)].content
           c == inv[p].cur
       IN  \E n \in ReadSizes(Max(Len(f) - c, 0)) :
            LET dbuf == SubSeq(f, c + 1, c + n)
                a == Arm(dbuf, inv[p].source_buffer)
            IN  inv' = [inv EXCEPT ![p].dest_buffer = dbuf,
                                   ![p].cur = c + n,
                                   ![p].arm = a,
                                   ![p].fullReads = (@ /\ n = FullSize(Max(Len(f) - c, 0))),
                                   ![p].ops = Append(@, Op("dread", c, dbuf, TRUE)),
                                   ![p].bytes_copied =
                                        IF a = "match" THEN @ + Len(inv[p].source_buffer) ELSE @,
                                   ![p].pc = IF a = "match" THEN "source_read" ELSE "seek"]
    /\ UNCHANGED <<fs, callVars>>

\* lib.rs:37,48,56
CSeek(p) ==
    /\ inv[p].pc = "seek"
    /\ LET t == SeekTarget(inv[p].cur, Len(inv[p].dest_buffer))
       IN  /\ t >= 0
           /\ inv' = [inv EXCEPT ![p].cur = t,
                                 ![p].pc = "write",
                                 ![p].ops = Append(@, Op("seek", t, <<>>, TRUE))]
    /\ UNCHANGED <<fs, callVars>>

\* lib.rs:38-39,49-50,57-58
CWrite(p) ==
    /\ inv[p].pc = "write"
    /\ fs' = [fs EXCEPT ![DestPath(p)].content = WriteAt(@, inv[p].cur, inv[p].source_buffer)]
    /\ inv' = [inv EXCEPT ![p].cur = @ + Len(inv[p].source_buffer),
                          ![p].bytes_copied = @ + Len(inv[p].source_buffer),
                          ![p].copied = 0,
                          ![p].pc = AfterWrite(inv[p].arm),
                          ![p].ops = Append(@, Op("write", inv[p].cur, inv[p].source_buffer, TRUE))]
    /\ UNCHANGED callVars

\* lib.rs:41-43,60-62
CCopyRead(p) ==
    /\ inv[p].pc = "copy_read"
    /\ \E n \in ReadSizes(Len(inv[p].S) - inv[p].spos) :
        LET data == SubSeq(inv[p].S, inv[p].spos + 1, inv[p].spos + n)
        IN  inv' = [inv EXCEPT ![p].copy_buffer = data,
                               ![p].spos = @ + n,
                               ![p].fullReads = (@ /\ n = FullSize(Len(inv[p].S) - inv[p].spos)),
                               ![p].ops = Append(@, Op("sread", inv[p].spos, data, TRUE)),
                               ![p].bytes_copied = IF n = 0 THEN @ + inv[p].copied ELSE @,
                               ![p].pc = IF n = 0 THEN "set_len" ELSE "copy_write"]
    /\ UNCHANGED <<fs, callVars>>

\* lib.rs:41,60
CCopyWrite(p) ==
    /\ inv[p].pc = "copy_write"
    /\ fs' = [fs EXCEPT ![DestPath(p)].content = WriteAt(@, inv[p].cur, inv[p].copy_buffer)]
    /\ inv' = [inv EXCEPT ![p].cur = @ + Len(inv[p].copy_buffer),
                          ![p].copied = @ + Len(inv[p].copy_buffer),
                          ![p].pc = "copy_read",
                          ![p].ops = Append(@, Op("write", inv[p].cur, inv[p].copy_buffer, TRUE))]
    /\ UNCHANGED callVars

\* lib.rs:67-70
CSetLenReturn(p) ==
    /\ inv[p].pc = "set_len"
    /\ fs' = [fs EXCEPT ![DestPath(p)].content = SetLen(@, inv[p].bytes_copied)]
    /\ inv' = [inv EXCEPT ![p].result = inv[p].bytes_copied,
                          ![p].pc = "done",
                          ![p].ops = Append(@, Op("set_len", inv[p].bytes_copied, <<>>, TRUE))]
    /\ UNCHANGED callVars

ConcNext ==
    \E p \in Procs :
        \/ COpen(p)
        \/ CSourceRead(p)
        \/ CDestRead(p)
        \/ CSeek(p)
        \/ CWrite(p)
        \/ CCopyRead(p)
        \/ CCopyWrite(p)
        \/ CSetLenReturn(p)

ConcSpec == InitConc /\ [][ConcNext]_vars

\* C11: two invocations on different paths, interleaved in any order: a
\* step of one changes neither the locals nor the file of the other; each
\* reads only its own file and leaves in it what its own calls produce,
\* so each ends with the content and count it has when run alone (S and
\* len(S) with full reads, the bytes it consumed in general).
C11_OwnFile(p) ==
    /\ fs[p].content = Replay(inv[p].dest0.content, inv[p].ops)
    /\ \A i \in DOMAIN inv[p].ops :
        LET o == inv[p].ops[i]
        IN  o.op = "dread" =>
                o.data = SubSeq(inv[p].dest0.content, o.off + 1, o.off + Len(o.data))
    /\ inv[p].pc = "done" =>
        /\ inv[p].result = inv[p].spos
        /\ fs[p].content = SubSeq(inv[p].S, 1, inv[p].spos)
        /\ inv[p].fullReads =>
            (inv[p].result = Len(inv[p].S) /\ fs[p].content = inv[p].S)

C11_Independent ==
    /\ [](\A p \in Procs : C11_OwnFile(p))
    /\ [][\A p \in Procs : \A q \in Procs \ {p} :
            inv'[p] # inv[p] => (inv'[q] = inv[q] /\ fs'[q] = fs[q])]_vars

\* Both returned after each rewrote its own file while the other was
\* between its open and its return.
C11_Witness ==
    /\ \A p \in Procs : inv[p].pc = "done" /\ inv[p].fullReads
    /\ \A p \in Procs : \E i \in DOMAIN inv[p].ops : inv[p].ops[i].op = "write"
    /\ inv[1].dest0.content # inv[1].S /\ inv[2].dest0.content # inv[2].S
    /\ fs[1].content = inv[1].S /\ fs[2].content = inv[2].S
    /\ fs[1].content # fs[2].content
====
